---- MODULE Spec2Model ----
(***************************************************************************)
(* Model of the X11 screen coordinator of shiny/driver/x11driver/screen.go *)
(* (screenImpl): the dispatch loop run(), handleCompletion, and the        *)
(* creation entry points NewBuffer, NewTexture and NewWindow, with the     *)
(* three tables windows / buffers / uploads guarded by the mutex mu.       *)
(***************************************************************************)
EXTENDS Integers, Sequences, FiniteSets, TLC

(* ------------------------------ bounds --------------------------------- *)
\* length of the format list the server answers QueryPictFormats with
MaxFormats == 3
\* events the dispatch loop reads in one behaviour
MaxEvents == 3
\* creation / upload calls made in one behaviour of Spec
MaxCalls == 2
\* creation calls made in one behaviour of SpecSizes and of SpecCtor
MaxSizeCalls == 1

(* -------------------------- program constants -------------------------- *)
maxShmSide == 32767
maxShmSize == 268435456

(* ------------------------------ universe ------------------------------- *)
Loop == "loop"
Callers == {"c1", "c2"}
NoTask == "none"
Nil == 0
NoSender == "nil"
\* a window id the server may name that no NewWindow call of this client made
ForeignWindow == 0
\* s.xsi.RootDepth, fixed at construction
RootDepths == {16, 24, 32}
\* sizes requested under Spec: the spec's two examples
SmallSizes == {<<10, 10>>, <<40000, 1>>}
\* side lengths requested under SpecSizes: both sides of every limit
SizeVals == {-1, 0, 10, 2048, 2049, 8192, 8193, 32767, 32768}
Senders == {NoSender, "recipient"}

\* event kinds classified by the type switch of run()
WindowFieldKinds == {"ClientMessage", "ConfigureNotify", "DestroyNotify", "Expose"}
EventFieldKinds == {"FocusIn", "FocusOut", "KeyPress", "KeyRelease",
                    "ButtonPress", "ButtonRelease", "MotionNotify"}
WindowKinds == WindowFieldKinds \cup EventFieldKinds
\* the window-addressed kinds the server sends
KindsRead == WindowKinds

VARIABLES
  mu,            \* s.mu: the task holding it, or NoTask
  windows,       \* s.windows: the set of window ids with an entry (id -> *windowImpl of that id)
  buffers,       \* s.buffers: segment id -> bufferImpl record
  uploads,       \* s.uploads: sequence number -> completion record
  rootDepth,     \* s.xsi.RootDepth
  ctor,          \* newScreenImpl: its position, the fields of s it has set, its result
  nextXid,       \* the connection's resource-id generator
  nextSeq,       \* the connection's request sequence counter (as seen by uploads)
  lpc,           \* position of the dispatch loop
  xw,            \* run(): xw, the window id taken from the event (screen.go:83)
  destroy,       \* run(): destroy (screen.go:83)
  ev,            \* handleCompletion: ev, the completion event passed to it; the event
                 \*   run() sends at screen.go:129 is named by its read number, nread
  lw,            \* run(): w, the window looked up (Nil if none)
  lc,            \* handleCompletion: completion, ok as looked up
  pc,            \* position of each caller task
  call,          \* the call each caller task is in (IdleCall when in none)
  lastCall,      \* history: the call that returned last, with its result
  xevents,       \* window id -> state of windowImpl.xevents ("open" / "closed")
  closes,        \* window id -> number of close(w.xevents) executed
  serverWindows, \* window ids for which a CreateWindow request was issued
  mapped,        \* shared-memory regions currently mapped (named by segment id)
  uploadState,   \* segment id -> "idle" / "busy" (bufferImpl's upload state)
  sends,         \* number of spawned goroutines inside sender.Send
  notified,      \* number of sender.Send calls that returned
  nread,         \* number of times WaitForEvent returned
  arrived,       \* history: <<window id, read number>> of every window-addressed event read
                 \*   that is no destroy-notification and precedes the window's first one
  destroyRead,   \* history: the server's windows a destroy-notification was read for
  delivered,     \* history: <<window id, read number>> of every event received on an xevents channel
  destroyed,     \* history: number of destroy-notifications that found their window
  destroyDone,   \* history: registered window ids a destroy-notification was looked up for
  resolved,      \* history: sequence numbers whose uploads entry a completion event matched
  registered,    \* history: window ids registered by NewWindow
  nBuffers,      \* history: number of NewBuffer calls that returned a buffer
  calls          \* number of calls started

vars == <<mu, windows, buffers, uploads, rootDepth, ctor, nextXid, nextSeq, lpc, xw, destroy, ev,
          lw, lc,
          pc, call, lastCall, xevents, closes, serverWindows, mapped, uploadState, sends,
          notified, nread, arrived, destroyRead, delivered, destroyed, destroyDone, resolved,
          registered, nBuffers, calls>>

tables == <<windows, buffers, uploads>>
loopVars == <<lpc, xw, destroy, ev, lw, lc>>
callerVars == <<pc, call, lastCall, calls>>
histVars == <<nread, arrived, destroyRead, delivered, destroyed, destroyDone, resolved, registered,
              nBuffers>>

(* ------------------------------ helpers -------------------------------- *)
\* f with key k set to v (a Go map assignment m[k] = v)
MapSet(f, k, v) == [x \in (DOMAIN f) \cup {k} |-> IF x = k THEN v ELSE f[x]]
\* f without key k (Go's delete(m, k))
MapDelete(f, k) == [x \in (DOMAIN f) \ {k} |-> f[x]]
EmptyMap == [x \in {} |-> Nil]

NoEvent == [kind |-> "none", Window |-> 0, Event |-> 0, Sequence |-> 0]
IdleCall == [op |-> "none", X |-> 0, Y |-> 0, id |-> 0, touched |-> {},
             status |-> "none", attachOk |-> TRUE, createOk |-> TRUE, bufLen |-> 0,
             stride |-> 0]

(* --------------------------- size validation --------------------------- *)
\* faulty variant: the byte-size check left out
BufferSizeInvalidNoArea(w, h) ==
  \/ w < 0
  \/ maxShmSide < w
  \/ h < 0
  \/ maxShmSide < h

\* screen.go:170.  w and h are int64; || short-circuits, so 4*w*h is computed only
\* for 0 <= w, h <= maxShmSide and never overflows int64.  maxShmSize is a
\* multiple of 4, so maxShmSize < 4*w*h is evaluated here as
\* maxShmSize \div 4 < w*h, which keeps the product inside TLC's integers.
BufferSizeInvalid(w, h) ==
  \/ w < 0
  \/ maxShmSide < w
  \/ h < 0
  \/ maxShmSide < h
  \/ maxShmSize \div 4 < w * h

\* screen.go:218
TextureSizeInvalid(w, h) ==
  \/ w < 0
  \/ maxShmSide < w
  \/ h < 0
  \/ maxShmSide < h
  \/ maxShmSize \div 4 < w * h

\* screen.go:178  bufLen := 4 * size.X * size.Y
BufLen(X, Y) == 4 * X * Y
\* faulty variant: the stride taken from the height
StrideByHeight(X, Y) == 4 * Y

\* screen.go:202  Stride: 4 * size.X
Stride(X, Y) == 4 * X

\* screen.go:183-187  the deferred cleanup: the regions mapped after it ran
DeferredShmClose(retErr, addr) == IF retErr THEN mapped \ {addr} ELSE mapped

\* faulty variant: the Unlock left out
UnlockMissing == mu

\* the holder of s.mu after s.mu.Lock() by task t / after s.mu.Unlock()
Locked(t) == t
Unlocked == NoTask

\* the call c of task t returns
Return(t, c) ==
  /\ lastCall' = c
  /\ call' = [call EXCEPT ![t] = IdleCall]
  /\ pc' = [pc EXCEPT ![t] = "idle"]

\* a call that returns in its first step
Finish(t, c) ==
  /\ Return(t, c)
  /\ calls' = calls + 1

\* a call that goes on to the step `where`
Continue(t, c, where) ==
  /\ call' = [call EXCEPT ![t] = c]
  /\ pc' = [pc EXCEPT ![t] = where]
  /\ calls' = calls + 1
  /\ UNCHANGED lastCall

(* ------------------------------ NewBuffer ------------------------------ *)
\* screen.go:165-207: validation, NewSegId, shmOpen, defer, Attach, bufferImpl
NewBufferStart(t, X, Y) ==
  /\ pc[t] = "idle"
  /\ LET c0 == [IdleCall EXCEPT !.op = "NewBuffer", !.X = X, !.Y = Y] IN
     IF BufferSizeInvalid(X, Y)
     THEN /\ Finish(t, [c0 EXCEPT !.status = "err_size"])
          /\ UNCHANGED <<nextXid, mapped>>
     ELSE \/ /\ Finish(t, [c0 EXCEPT !.status = "err_segid"])      \* NewSegId failed
             /\ UNCHANGED <<nextXid, mapped>>
          \/ /\ nextXid' = nextXid + 1
             /\ LET c1 == [c0 EXCEPT !.id = nextXid, !.touched = {"segid"}] IN
                \/ /\ Finish(t, [c1 EXCEPT !.status = "err_shmopen"])   \* shmOpen failed
                   /\ UNCHANGED mapped
                \/ /\ mapped' = mapped \cup {nextXid}
                   /\ \E ok \in BOOLEAN :           \* the outcome of shm.Attach, not looked at
                        Continue(t, [c1 EXCEPT !.touched = {"segid", "shmopen", "attach"},
                                               !.status = "running",
                                               !.attachOk = ok,
                                               !.bufLen = BufLen(X, Y),
                                               !.stride = Stride(X, Y)], "nb_lock")
  /\ UNCHANGED <<mu, tables, rootDepth, ctor, nextSeq, loopVars, xevents, closes, serverWindows,
                 uploadState, sends, notified, histVars>>

\* screen.go:209
NewBufferLock(t) ==
  /\ pc[t] = "nb_lock"
  /\ mu = NoTask
  /\ mu' = Locked(t)
  /\ pc' = [pc EXCEPT ![t] = "nb_register"]
  /\ UNCHANGED <<tables, rootDepth, ctor, nextXid, nextSeq, loopVars, call, lastCall, calls, xevents, closes,
                 serverWindows, mapped, uploadState, sends, notified, histVars>>

\* faulty variant: every buffer stored under the zero segment id
BufferKeyZero(c) == 0

\* screen.go:210  the key s.buffers[b.xs] of the buffer made by call c
BufferKey(c) == c.id

\* screen.go:210-213 and the deferred function of 183-187
NewBufferRegister(t) ==
  /\ pc[t] = "nb_register"
  /\ LET c == call[t] IN
     /\ buffers' = MapSet(buffers, BufferKey(c), [xs |-> c.id, size |-> <<c.X, c.Y>>,
                                          bufLen |-> c.bufLen, stride |-> c.stride])
     /\ uploadState' = MapSet(uploadState, BufferKey(c), "idle")
     /\ mu' = Unlocked
     /\ mapped' = DeferredShmClose(FALSE, c.id)
     /\ Return(t, [c EXCEPT !.status = "ok", !.touched = c.touched \cup {"register"}])
  /\ nBuffers' = nBuffers + 1
  /\ UNCHANGED <<windows, uploads, rootDepth, ctor, nextXid, nextSeq, loopVars, calls, xevents,
                 closes, serverWindows, sends, notified, nread, arrived, destroyRead,
                 delivered, destroyed, destroyDone, resolved, registered>>

(* ------------------------------ NewTexture ----------------------------- *)
\* faulty variant: the pixmap created as soon as its id is allocated
DoneBeforePictureIdEager == {"pixmapid", "CreatePixmap"}

\* screen.go:222-229  what NewTexture has done when NewPictureId fails
DoneBeforePictureId == {"pixmapid"}

\* screen.go:216-241
NewTexture(t, X, Y) ==
  /\ pc[t] = "idle"
  /\ LET c0 == [IdleCall EXCEPT !.op = "NewTexture", !.X = X, !.Y = Y] IN
     IF TextureSizeInvalid(X, Y)
     THEN /\ Finish(t, [c0 EXCEPT !.status = "err_size"])
          /\ UNCHANGED nextXid
     ELSE \/ /\ Finish(t, [c0 EXCEPT !.status = "err_pixmapid"])   \* NewPixmapId failed
             /\ UNCHANGED nextXid
          \/ /\ Finish(t, [c0 EXCEPT !.status = "err_pictureid",   \* NewPictureId failed
                                     !.id = nextXid, !.touched = DoneBeforePictureId])
             /\ nextXid' = nextXid + 1
          \/ /\ Finish(t, [c0 EXCEPT !.status = "ok", !.id = nextXid,
                                     !.touched = {"pixmapid", "pictureid",
                                                  "CreatePixmap", "CreatePicture"}])
             /\ nextXid' = nextXid + 2
  /\ UNCHANGED <<mu, tables, rootDepth, ctor, nextSeq, loopVars, xevents, closes, serverWindows,
                 mapped, uploadState, sends, notified, histVars>>

(* ------------------------------ NewWindow ------------------------------ *)
\* screen.go:243-277: id allocation, root depth, windowImpl, go w.run()
NewWindowStart(t) ==
  /\ pc[t] = "idle"
  /\ LET c0 == [IdleCall EXCEPT !.op = "NewWindow"] IN
     \/ /\ Finish(t, [c0 EXCEPT !.status = "err_windowid"])
        /\ UNCHANGED <<nextXid, xevents, closes>>
     \/ /\ Finish(t, [c0 EXCEPT !.status = "err_gcontextid", !.id = nextXid,
                                !.touched = {"windowid"}])
        /\ nextXid' = nextXid + 1
        /\ UNCHANGED <<xevents, closes>>
     \/ /\ Finish(t, [c0 EXCEPT !.status = "err_pictureid", !.id = nextXid,
                                !.touched = {"windowid", "gcontextid"}])
        /\ nextXid' = nextXid + 2
        /\ UNCHANGED <<xevents, closes>>
     \/ /\ nextXid' = nextXid + 3
        /\ LET c1 == [c0 EXCEPT !.id = nextXid,
                                !.touched = {"windowid", "gcontextid", "pictureid"}] IN
           IF rootDepth \notin {24, 32}
           THEN /\ Finish(t, [c1 EXCEPT !.status = "err_depth"])
                /\ UNCHANGED <<xevents, closes>>
           ELSE /\ Continue(t, [c1 EXCEPT !.status = "running"], "nw_lock")
                /\ xevents' = MapSet(xevents, nextXid, "open")
                /\ closes' = MapSet(closes, nextXid, 0)
  /\ UNCHANGED <<mu, tables, rootDepth, ctor, nextSeq, loopVars, serverWindows, mapped,
                 uploadState, sends, notified, histVars>>

\* screen.go:279
NewWindowLock(t) ==
  /\ pc[t] = "nw_lock"
  /\ mu = NoTask
  /\ mu' = Locked(t)
  /\ pc' = [pc EXCEPT ![t] = "nw_register"]
  /\ UNCHANGED <<tables, rootDepth, ctor, nextXid, nextSeq, loopVars, call, lastCall, calls, xevents, closes,
                 serverWindows, mapped, uploadState, sends, notified, histVars>>

\* the key under which NewWindow stores the window of the given id (screen.go:280)
WindowKey(id) == id

\* screen.go:280-281
NewWindowRegister(t) ==
  /\ pc[t] = "nw_register"
  /\ windows' = MapSet(windows, WindowKey(call[t].id), call[t].id)
  /\ registered' = registered \cup {call[t].id}
  /\ mu' = Unlocked
  /\ call' = [call EXCEPT ![t].touched = @ \cup {"register"}]
  /\ pc' = [pc EXCEPT ![t] = "nw_requests"]
  /\ UNCHANGED <<buffers, uploads, rootDepth, ctor, nextXid, nextSeq, loopVars, lastCall, calls, xevents,
                 closes, serverWindows, mapped, uploadState, sends, notified, nread, arrived, destroyRead,
                 delivered, destroyed, destroyDone, resolved, nBuffers>>

\* screen.go:283-303.  The requests are sent unchecked and their cookies dropped:
\* whether the server created the window is not looked at.
NewWindowRequests(t) ==
  /\ pc[t] = "nw_requests"
  /\ \E ok \in BOOLEAN :
       /\ serverWindows' = IF ok THEN serverWindows \cup {call[t].id} ELSE serverWindows
       /\ Return(t, [call[t] EXCEPT !.status = "ok",
                                    !.createOk = ok,
                                    !.touched = @ \cup {"CreateWindow", "ChangeProperty",
                                                         "CreateGC", "CreatePicture",
                                                         "MapWindow"}])
  /\ UNCHANGED <<mu, tables, rootDepth, ctor, nextXid, nextSeq, loopVars, calls, xevents, closes,
                 mapped, uploadState, sends, notified, histVars>>

(* ------------------------------- Upload -------------------------------- *)
\* Registration of a pending completion by an upload (window.go / buffer.go, not
\* among the sources): under the mutex, uploads[cookie.Sequence] = completion and
\* the buffer becomes busy.
Upload(t) ==
  /\ pc[t] = "idle"
  /\ mu = NoTask
  /\ \E b \in DOMAIN buffers, sender \in Senders :
       /\ uploads' = MapSet(uploads, nextSeq, [sender |-> sender, buffer |-> b])
       /\ uploadState' = [uploadState EXCEPT ![b] = "busy"]
       /\ Finish(t, [IdleCall EXCEPT !.op = "Upload", !.id = nextSeq, !.status = "ok"])
  /\ nextSeq' = nextSeq + 1
  /\ UNCHANGED <<mu, windows, buffers, rootDepth, ctor, nextXid, loopVars, xevents, closes,
                 serverWindows, mapped, sends, notified, histVars>>

(* ---------------------------- dispatch loop ---------------------------- *)
\* faulty variant: every kind read through the field Window
WindowOfWindowField(e) == e.Window

\* screen.go:90-112: the window id taken from the event, by kind
WindowOf(e) ==
  CASE e.kind = "ClientMessage"   -> e.Window
    [] e.kind = "ConfigureNotify" -> e.Window
    [] e.kind = "DestroyNotify"   -> e.Window
    [] e.kind = "Expose"          -> e.Window
    [] e.kind = "FocusIn"         -> e.Event
    [] e.kind = "FocusOut"        -> e.Event
    [] e.kind = "KeyPress"        -> e.Event
    [] e.kind = "KeyRelease"      -> e.Event
    [] e.kind = "ButtonPress"     -> e.Event
    [] e.kind = "ButtonRelease"   -> e.Event
    [] e.kind = "MotionNotify"    -> e.Event
    [] OTHER                      -> 0

\* screen.go:94-96
IsDestroy(e) == e.kind = "DestroyNotify"

\* a Go map read m[k] of a map of pointers: the zero value when k is absent
Lookup(m, k) == IF k \in DOMAIN m THEN m[k] ELSE Nil

\* an X event of kind k about window x, as xproto decodes it: the window is in the
\* field Window or in the field Event, by kind
WindowEvent(k, x) ==
  IF k \in WindowFieldKinds
  THEN [kind |-> k, Window |-> x, Event |-> 0, Sequence |-> 0]
  ELSE [kind |-> k, Window |-> 0, Event |-> x, Sequence |-> 0]

\* the window an X event is about, whichever field carries it
TargetOf(e) == IF e.kind \in WindowFieldKinds THEN e.Window ELSE e.Event

\* what WaitForEvent can return next: a read error, an event about a window the
\* server knows (or one this client never made), a completion event for the
\* sequence number of an upload (or 0, for none), an event of another kind
Incoming ==
  {[kind |-> "ReadError", Window |-> 0, Event |-> 0, Sequence |-> 0],
   [kind |-> "MapNotify", Window |-> 0, Event |-> 0, Sequence |-> 0]}
  \cup {WindowEvent(k, x) : k \in KindsRead, x \in serverWindows \cup {ForeignWindow}}
  \cup {[kind |-> "Completion", Window |-> 0, Event |-> 0, Sequence |-> q] :
          q \in 0 .. (nextSeq - 1)}

NoCompletion == [ok |-> FALSE, sender |-> NoSender, buffer |-> 0]

\* faulty variant: a read error ends run()
AfterReadErrorExit == "exit"

\* screen.go:78-81  log and continue: the loop is at WaitForEvent again
AfterReadError == "wait"

\* screen.go:77-113
RunWaitForEvent ==
  /\ lpc = "wait"
  /\ nread < MaxEvents
  /\ \E e \in Incoming :
       /\ nread' = nread + 1
       /\ arrived' = IF e.kind \in WindowKinds /\ ~IsDestroy(e)
                         /\ TargetOf(e) \in serverWindows \ destroyRead
                      THEN Append(arrived, <<TargetOf(e), nread + 1>>) ELSE arrived
       /\ destroyRead' = IF IsDestroy(e) /\ TargetOf(e) \in serverWindows
                          THEN destroyRead \cup {TargetOf(e)} ELSE destroyRead
       /\ IF e.kind = "ReadError"
          THEN lpc' = AfterReadError /\ ev' = NoEvent /\ UNCHANGED <<xw, destroy>>
          ELSE IF e.kind = "Completion"
          THEN lpc' = "hc_lock" /\ ev' = e /\ UNCHANGED <<xw, destroy>>
          ELSE IF e.kind \in WindowKinds
          THEN lpc' = "lock" /\ ev' = NoEvent /\ xw' = WindowOf(e) /\ destroy' = IsDestroy(e)
          ELSE lpc' = "wait" /\ ev' = NoEvent /\ UNCHANGED <<xw, destroy>>
  /\ UNCHANGED <<mu, tables, rootDepth, ctor, nextXid, nextSeq, lw, lc, callerVars, xevents, closes,
                 serverWindows, mapped, uploadState, sends, notified, delivered, destroyed,
                 destroyDone, resolved, registered, nBuffers>>

\* screen.go:115
RunLock ==
  /\ lpc = "lock"
  /\ mu = NoTask
  /\ mu' = Locked(Loop)
  /\ lpc' = "lookup"
  /\ UNCHANGED <<tables, rootDepth, ctor, nextXid, nextSeq, xw, destroy, ev, lw, lc, callerVars, xevents,
                 closes,
                 serverWindows, mapped, uploadState, sends, notified, histVars>>

\* faulty variant: the lookup placed after the delete
RunLookupAfterDelete(key, del) == IF del THEN Nil ELSE Lookup(windows, key)

\* screen.go:116  w := s.windows[xw]
RunLookupWindow(key, del) == Lookup(windows, key)

\* faulty variant: a destroy-notification for an id without an entry empties the table
WindowsAfterLookupClear(key, del) ==
  IF ~del THEN windows
  ELSE IF key \in DOMAIN windows THEN MapDelete(windows, key) ELSE EmptyMap

\* faulty variant: the entry is not deleted on a destroy-notification
WindowsAfterLookupKeep(key, del) == windows

\* screen.go:117-119  if destroy { delete(s.windows, xw) }: the table afterwards
WindowsAfterLookup(key, del) == IF del THEN MapDelete(windows, key) ELSE windows

\* screen.go:116-120
RunLookup ==
  /\ lpc = "lookup"
  /\ lw' = RunLookupWindow(xw, destroy)
  /\ windows' = WindowsAfterLookup(xw, destroy)
  /\ destroyed' = IF destroy /\ xw \in DOMAIN windows THEN destroyed + 1 ELSE destroyed
  /\ destroyDone' = IF destroy /\ xw \in registered
                    THEN destroyDone \cup {xw} ELSE destroyDone
  /\ mu' = Unlocked
  /\ lpc' = "route"
  /\ UNCHANGED <<buffers, uploads, rootDepth, ctor, nextXid, nextSeq, xw, destroy, ev, lc,
                 callerVars, xevents,
                 closes, serverWindows, mapped, uploadState, sends, notified, nread, arrived,
                 destroyRead, delivered, resolved, registered, nBuffers>>

\* faulty variant: the send given up when the window's task is not receiving
OfferedOrDropped == "wait"

\* screen.go:129  w.xevents <- ev on the unbuffered channel made at screen.go:275:
\* the loop is in the send until the window's task receives
Offered == "send"

\* screen.go:122-130.  close of a closed channel and send on a closed channel panic.
RunRoute ==
  /\ lpc = "route"
  /\ IF lw = Nil
     THEN /\ lpc' = "wait" /\ lw' = Nil
          /\ UNCHANGED <<xevents, closes>>
     ELSE IF destroy
     THEN /\ closes' = [closes EXCEPT ![lw] = @ + 1]
          /\ IF xevents[lw] = "closed"
             THEN lpc' = "panic" /\ UNCHANGED <<xevents, lw>>
             ELSE /\ xevents' = [xevents EXCEPT ![lw] = "closed"]
                  /\ lpc' = "wait" /\ lw' = Nil
     ELSE /\ IF xevents[lw] = "closed" THEN lpc' = "panic" ELSE lpc' = Offered
          /\ UNCHANGED <<xevents, closes, lw>>
  /\ xw' = IF lpc' = "wait" THEN 0 ELSE xw
  /\ destroy' = IF lpc' = "wait" THEN FALSE ELSE destroy
  /\ UNCHANGED <<mu, tables, rootDepth, ctor, nextXid, nextSeq, ev, lc, callerVars, serverWindows,
                 mapped, uploadState, sends, notified, histVars>>

\* screen.go:129 completing: xevents is unbuffered (screen.go:275), so the send
\* returns when the window's task receives the event
XEventsRecv ==
  /\ lpc = "send"
  /\ delivered' = Append(delivered, <<lw, nread>>)
  /\ lpc' = "wait" /\ xw' = 0 /\ destroy' = FALSE /\ lw' = Nil
  /\ UNCHANGED <<mu, tables, rootDepth, ctor, nextXid, nextSeq, ev, lc, callerVars, xevents, closes,
                 serverWindows, mapped, uploadState, sends, notified, nread, arrived,
                 destroyRead, destroyed, destroyDone, resolved, registered, nBuffers>>

(* --------------------------- handleCompletion -------------------------- *)
\* screen.go:144
HandleCompletionLock ==
  /\ lpc = "hc_lock"
  /\ mu = NoTask
  /\ mu' = Locked(Loop)
  /\ lpc' = "hc_lookup"
  /\ UNCHANGED <<tables, rootDepth, ctor, nextXid, nextSeq, xw, destroy, ev, lw, lc, callerVars, xevents,
                 closes,
                 serverWindows, mapped, uploadState, sends, notified, histVars>>

\* screen.go:145  completion, ok := s.uploads[ev.Sequence]: the table afterwards
UploadsAfterLookup(q) == uploads

\* screen.go:145-146
HandleCompletionLookup ==
  /\ lpc = "hc_lookup"
  /\ lc' = IF ev.Sequence \in DOMAIN uploads
           THEN [ok |-> TRUE, sender |-> uploads[ev.Sequence].sender,
                 buffer |-> uploads[ev.Sequence].buffer]
           ELSE NoCompletion
  /\ uploads' = UploadsAfterLookup(ev.Sequence)
  /\ resolved' = IF ev.Sequence \in DOMAIN uploads
                 THEN resolved \cup {ev.Sequence} ELSE resolved
  /\ mu' = Unlocked
  /\ lpc' = "hc_post"
  /\ UNCHANGED <<windows, buffers, rootDepth, ctor, nextXid, nextSeq, xw, destroy, ev, lw,
                 callerVars, xevents,
                 closes, serverWindows, mapped, uploadState, sends, notified, nread,
                 arrived, destroyRead, delivered, destroyed, destroyDone, registered,
                 nBuffers>>

\* bufferImpl.postUpload (buffer.go, not among the sources): the buffer's upload
\* state becomes idle
PostUpload(b) == [uploadState EXCEPT ![b] = "idle"]

\* faulty variant: Send called without the go statement
SendTaskInline == "loop"

\* screen.go:156  the task sender.Send runs on: a goroutine of its own
SendTask == "goroutine"

\* faulty variant: Send spawned whether or not the entry names a recipient
SpawnsSendAlways(c) == TRUE

\* screen.go:153  if completion.sender != nil
SpawnsSend(c) == c.sender # NoSender

\* screen.go:148-152  the entry not found: log and return; found: postUpload
HandleCompletionPost ==
  /\ lpc = "hc_post"
  /\ IF ~lc.ok
     THEN /\ lpc' = "wait"
          /\ UNCHANGED uploadState
     ELSE /\ uploadState' = PostUpload(lc.buffer)
          /\ lpc' = "hc_notify"
  /\ ev' = IF lpc' = "wait" THEN NoEvent ELSE ev
  /\ lc' = IF lpc' = "wait" THEN NoCompletion ELSE lc
  /\ UNCHANGED <<mu, tables, rootDepth, ctor, nextXid, nextSeq, xw, destroy, lw, callerVars,
                 xevents, closes, serverWindows, mapped, sends, notified, histVars>>

\* screen.go:153-157  go completion.sender.Send(...) if there is a sender
HandleCompletionNotify ==
  /\ lpc = "hc_notify"
  /\ IF ~SpawnsSend(lc)
     THEN lpc' = "wait" /\ UNCHANGED sends
     ELSE IF SendTask = Loop
     THEN lpc' = "hc_send" /\ UNCHANGED sends
     ELSE lpc' = "wait" /\ sends' = sends + 1
  /\ ev' = IF lpc' = "wait" THEN NoEvent ELSE ev
  /\ lc' = IF lpc' = "wait" THEN NoCompletion ELSE lc
  /\ UNCHANGED <<mu, tables, rootDepth, ctor, nextXid, nextSeq, xw, destroy, lw, callerVars,
                 xevents, closes, serverWindows, mapped, uploadState, notified, histVars>>

\* a recipient's Send, running on its own goroutine, returns
SendReturn ==
  /\ sends > 0
  /\ sends' = sends - 1
  /\ notified' = notified + 1
  /\ UNCHANGED <<mu, tables, rootDepth, ctor, nextXid, nextSeq, loopVars, callerVars, xevents,
                 closes, serverWindows, mapped, uploadState, histVars>>

(* ----------------------------- construction --------------------------- *)
\* render.PictTypeDirect and the other type a Pictforminfo can have
PictTypeDirect == "Direct"
PictTypeIndexed == "Indexed"

Directformat(rs, rm, gs, gm, bs, bm, as, am) ==
  [RedShift |-> rs, RedMask |-> rm, GreenShift |-> gs, GreenMask |-> gm,
   BlueShift |-> bs, BlueMask |-> bm, AlphaShift |-> as, AlphaMask |-> am]

Pictforminfo(id, type, depth, direct) ==
  [Id |-> id, Type |-> type, Depth |-> depth, Direct |-> direct]

\* screen.go:350-363  the layout findPictformat looks for (0xff = 255)
Want(depth) ==
  IF depth = 24
  THEN Directformat(16, 255, 8, 255, 0, 255, 0, 0)
  ELSE Directformat(16, 255, 8, 255, 0, 255, 24, 255)

\* faulty variant: the depth of the format not compared
MatchesAnyDepth(f, depth) == f.Type = PictTypeDirect /\ f.Direct = Want(depth)

\* screen.go:365  the test of the loop body
Matches(f, depth) == f.Type = PictTypeDirect /\ f.Depth = depth /\ f.Direct = Want(depth)

\* screen.go:349-371  findPictformat: the id of the first matching format, or an error
FindPictformat(fs, depth) ==
  LET hits == {i \in 1..Len(fs) : Matches(fs[i], depth)} IN
  IF hits = {}
  THEN [ok |-> FALSE, id |-> 0]
  ELSE [ok |-> TRUE, id |-> fs[CHOOSE i \in hits : \A j \in hits : i <= j].Id]

\* the formats a server may offer: the two wanted ones, r5g6b5 at depth 16,
\* depth 24 with an alpha field, an indexed type with the wanted depth-32 layout,
\* a second wanted depth-32 format, x8r8g8b8 at depth 32, and depth 24 with an
\* empty alpha mask at a non-zero shift
PictFormats ==
  { Pictforminfo(1, PictTypeDirect, 24, Directformat(16, 255, 8, 255, 0, 255, 0, 0)),
    Pictforminfo(2, PictTypeDirect, 32, Directformat(16, 255, 8, 255, 0, 255, 24, 255)),
    Pictforminfo(3, PictTypeDirect, 16, Directformat(11, 31, 5, 63, 0, 31, 0, 0)),
    Pictforminfo(4, PictTypeDirect, 24, Directformat(16, 255, 8, 255, 0, 255, 24, 255)),
    Pictforminfo(5, PictTypeIndexed, 32, Directformat(16, 255, 8, 255, 0, 255, 24, 255)),
    Pictforminfo(6, PictTypeDirect, 32, Directformat(16, 255, 8, 255, 0, 255, 24, 255)),
    Pictforminfo(7, PictTypeDirect, 32, Directformat(16, 255, 8, 255, 0, 255, 0, 0)),
    Pictforminfo(8, PictTypeDirect, 24, Directformat(16, 255, 8, 255, 0, 255, 24, 0)) }

FormatLists == UNION {[1..n -> PictFormats] : n \in 0..MaxFormats}

Visual(depth, id, rm, gm, bm) ==
  [Depth |-> depth, VisualId |-> id, RedMask |-> rm, GreenMask |-> gm, BlueMask |-> bm]

\* screen.go:407-419  findVisual over xsi.AllowedDepths, each visual listed with
\* the depth it is allowed for (0xff0000 = 16711680, 0xff00 = 65280, 0xff = 255)
FindVisual(vs, depth) ==
  LET hits == {i \in 1..Len(vs) : /\ vs[i].Depth = depth
                                   /\ vs[i].RedMask = 16711680
                                   /\ vs[i].GreenMask = 65280
                                   /\ vs[i].BlueMask = 255} IN
  IF hits = {}
  THEN [ok |-> FALSE, id |-> 0]
  ELSE [ok |-> TRUE, id |-> vs[CHOOSE i \in hits : \A j \in hits : i <= j].VisualId]

\* the visuals a screen may allow: none at depth 32, a BGR-ordered one at depth 32,
\* the wanted one alone or after one of depth 24
VisualLists ==
  { << Visual(24, 33, 16711680, 65280, 255) >>,
    << Visual(32, 34, 255, 65280, 16711680) >>,
    << Visual(32, 35, 16711680, 65280, 255) >>,
    << Visual(24, 33, 16711680, 65280, 255), Visual(32, 35, 16711680, 65280, 255) >> }

\* the first id the connection's generator hands out
FirstXid == 1

\* screen.go:55-61  s as allocated, before any startup step
NotConstructed ==
  [pc |-> "atoms", result |-> "none", err |-> "none", atoms |-> 0, formats |-> <<>>,
   pictformat24 |-> 0, pictformat32 |-> 0, window32 |-> 0, gcontext32 |-> 0,
   requests |-> {}, created |-> FALSE]

\* screen.go:72  s as returned by newScreenImpl
Constructed ==
  [pc |-> "done", result |-> "ok", err |-> "none", atoms |-> 3, formats |-> <<>>,
   pictformat24 |-> 1, pictformat32 |-> 2, window32 |-> FirstXid + 1,
   gcontext32 |-> FirstXid + 2,
   requests |-> {"CreateColormap", "CreateWindow", "CreateGC"}, created |-> TRUE]

\* everything newScreenImpl leaves alone
ctorFrame == <<mu, tables, rootDepth, nextSeq, xw, destroy, ev, lw, lc, callerVars, xevents,
               closes, serverWindows, mapped, uploadState, sends, notified, histVars>>

\* screen.go:54-73  return nil, err
Abort(c, e) == [c EXCEPT !.pc = "done", !.result = "err", !.err = e]

\* screen.go:62-64, 306-331  initAtoms: three InternAtom round trips, the first
\* that fails (an error, or a nil reply) ends construction
NewScreenImplAtoms ==
  /\ ctor.pc = "atoms"
  /\ \E n \in 0..3 :
       ctor' = IF n = 3
               THEN [ctor EXCEPT !.pc = "pictformats", !.atoms = n]
               ELSE Abort([ctor EXCEPT !.atoms = n], "atoms")
  /\ UNCHANGED <<ctorFrame, nextXid, lpc>>

\* screen.go:65-67, 333-347  initPictformats
NewScreenImplPictformats ==
  /\ ctor.pc = "pictformats"
  /\ \/ ctor' = Abort(ctor, "query")
     \/ \E fs \in FormatLists :
          LET f24 == FindPictformat(fs, 24)
              f32 == FindPictformat(fs, 32)
              c1 == [ctor EXCEPT !.formats = fs] IN
          ctor' = IF ~f24.ok THEN Abort(c1, "pictformat24")
                  ELSE IF ~f32.ok
                  THEN Abort([c1 EXCEPT !.pictformat24 = f24.id], "pictformat32")
                  ELSE [c1 EXCEPT !.pictformat24 = f24.id, !.pictformat32 = f32.id,
                                  !.pc = "window32"]
  /\ UNCHANGED <<ctorFrame, nextXid, lpc>>

\* screen.go:68-70, 373-405  initWindow32.  CreateColormap is sent checked;
\* CreateWindow and CreateGC are sent unchecked, whether the server created the
\* window is not looked at.
NewScreenImplWindow32 ==
  /\ ctor.pc = "window32"
  /\ LET c0 == [ctor EXCEPT !.formats = <<>>] IN
     \E vs \in VisualLists :
       IF ~FindVisual(vs, 32).ok
       THEN ctor' = Abort(c0, "visual") /\ UNCHANGED nextXid
       ELSE
         \/ ctor' = Abort(c0, "colormapid") /\ UNCHANGED nextXid
         \/ /\ ctor' = Abort([c0 EXCEPT !.requests = {"CreateColormap"}], "colormap")
            /\ nextXid' = nextXid + 1
         \/ /\ ctor' = Abort([c0 EXCEPT !.requests = {"CreateColormap"}], "windowid")
            /\ nextXid' = nextXid + 1
         \/ /\ ctor' = Abort([c0 EXCEPT !.requests = {"CreateColormap"},
                                        !.window32 = nextXid + 1], "gcontextid")
            /\ nextXid' = nextXid + 2
         \/ /\ \E ok \in BOOLEAN :
                 ctor' = [c0 EXCEPT !.requests = {"CreateColormap", "CreateWindow",
                                                  "CreateGC"},
                                    !.window32 = nextXid + 1,
                                    !.gcontext32 = nextXid + 2,
                                    !.created = ok,
                                    !.pc = "run"]
            /\ nextXid' = nextXid + 3
  /\ UNCHANGED <<ctorFrame, lpc>>

\* faulty variant: the loop started before the startup steps
RunStartsAtAllocation == "atoms"

\* screen.go:71  the position of newScreenImpl at which go s.run() is executed
RunStartsAt == "run"

\* screen.go:71  go s.run()
NewScreenImplGoRun ==
  /\ ctor.pc = RunStartsAt
  /\ lpc = "unstarted"
  /\ lpc' = "wait"
  /\ ctor' = IF ctor.pc = "run" THEN [ctor EXCEPT !.pc = "return"] ELSE ctor
  /\ UNCHANGED <<ctorFrame, nextXid>>

\* screen.go:72  return s, nil
NewScreenImplReturn ==
  /\ ctor.pc = "return"
  /\ ctor' = [ctor EXCEPT !.pc = "done", !.result = "ok"]
  /\ UNCHANGED <<ctorFrame, nextXid, lpc>>

(* ---------------------------- specifications --------------------------- *)
\* screen.go:55-61  the coordinator as allocated: empty tables, nothing in progress
Allocated ==
  /\ mu = NoTask
  /\ windows = EmptyMap
  /\ buffers = EmptyMap
  /\ uploads = EmptyMap
  /\ rootDepth \in RootDepths
  /\ nextSeq = 1
  /\ xw = 0
  /\ destroy = FALSE
  /\ ev = NoEvent
  /\ lw = Nil
  /\ lc = NoCompletion
  /\ pc = [t \in Callers |-> "idle"]
  /\ call = [t \in Callers |-> IdleCall]
  /\ lastCall = IdleCall
  /\ xevents = EmptyMap
  /\ closes = EmptyMap
  /\ serverWindows = {}
  /\ mapped = {}
  /\ uploadState = EmptyMap
  /\ sends = 0
  /\ notified = 0
  /\ nread = 0
  /\ arrived = <<>>
  /\ destroyRead = {}
  /\ delivered = <<>>
  /\ destroyed = 0
  /\ destroyDone = {}
  /\ resolved = {}
  /\ registered = {}
  /\ nBuffers = 0
  /\ calls = 0

\* the state after newScreenImpl returned a coordinator (screen.go:55-72): the
\* three ids of initWindow32 allocated, the loop at its first WaitForEvent
Init ==
  /\ Allocated
  /\ ctor = Constructed
  /\ nextXid = FirstXid + 3
  /\ lpc = "wait"

\* the state at the entry of newScreenImpl
InitCtor ==
  /\ Allocated
  /\ ctor = NotConstructed
  /\ nextXid = FirstXid
  /\ lpc = "unstarted"

CallNewBuffer(t) == calls < MaxCalls /\ \E sz \in SmallSizes : NewBufferStart(t, sz[1], sz[2])
CallNewTexture(t) == calls < MaxCalls /\ \E sz \in SmallSizes : NewTexture(t, sz[1], sz[2])
CallNewWindow(t) == calls < MaxCalls /\ NewWindowStart(t)
CallUpload(t) == calls < MaxCalls /\ Upload(t)

Next ==
  \/ \E t \in Callers : CallNewBuffer(t)
  \/ \E t \in Callers : NewBufferLock(t)
  \/ \E t \in Callers : NewBufferRegister(t)
  \/ \E t \in Callers : CallNewTexture(t)
  \/ \E t \in Callers : CallNewWindow(t)
  \/ \E t \in Callers : NewWindowLock(t)
  \/ \E t \in Callers : NewWindowRegister(t)
  \/ \E t \in Callers : NewWindowRequests(t)
  \/ \E t \in Callers : CallUpload(t)
  \/ RunWaitForEvent
  \/ RunLock
  \/ RunLookup
  \/ RunRoute
  \/ XEventsRecv
  \/ HandleCompletionLock
  \/ HandleCompletionLookup
  \/ HandleCompletionPost
  \/ HandleCompletionNotify
  \/ SendReturn

Spec == Init /\ [][Next]_vars

\* SpecSizes: creation calls over every combination of SizeVals
SizeNewBuffer(t) ==
  calls < MaxSizeCalls /\ \E X \in SizeVals, Y \in SizeVals : NewBufferStart(t, X, Y)
SizeNewTexture(t) ==
  calls < MaxSizeCalls /\ \E X \in SizeVals, Y \in SizeVals : NewTexture(t, X, Y)

NextSizes ==
  \/ \E t \in Callers : SizeNewBuffer(t)
  \/ \E t \in Callers : NewBufferLock(t)
  \/ \E t \in Callers : NewBufferRegister(t)
  \/ \E t \in Callers : SizeNewTexture(t)

SpecSizes == Init /\ [][NextSizes]_vars

\* SpecCtor: newScreenImpl from its entry, then the loop and creation calls on the
\* coordinator it returned
CtorNewBuffer(t) ==
  /\ ctor.result = "ok"
  /\ calls < MaxSizeCalls
  /\ \E sz \in SmallSizes : NewBufferStart(t, sz[1], sz[2])
CtorNewTexture(t) ==
  /\ ctor.result = "ok"
  /\ calls < MaxSizeCalls
  /\ \E sz \in SmallSizes : NewTexture(t, sz[1], sz[2])
CtorNewWindow(t) ==
  /\ ctor.result = "ok"
  /\ calls < MaxSizeCalls
  /\ NewWindowStart(t)

NextCtor ==
  \/ NewScreenImplAtoms
  \/ NewScreenImplPictformats
  \/ NewScreenImplWindow32
  \/ NewScreenImplGoRun
  \/ NewScreenImplReturn
  \/ \E t \in Callers : CtorNewBuffer(t)
  \/ \E t \in Callers : NewBufferLock(t)
  \/ \E t \in Callers : NewBufferRegister(t)
  \/ \E t \in Callers : CtorNewTexture(t)
  \/ \E t \in Callers : CtorNewWindow(t)
  \/ \E t \in Callers : NewWindowLock(t)
  \/ \E t \in Callers : NewWindowRegister(t)
  \/ \E t \in Callers : NewWindowRequests(t)
  \/ RunWaitForEvent
  \/ RunLock
  \/ RunLookup
  \/ RunRoute
  \/ XEventsRecv
  \/ HandleCompletionLock
  \/ HandleCompletionLookup
  \/ HandleCompletionPost

SpecCtor == InitCtor /\ [][NextCtor]_vars

\* SpecFair: the loop beside one task making the calls one after another, with
\* the scheduling the Go runtime gives: the loop task takes its next step when it
\* can, a task holding s.mu gets to its Unlock, and every window's task eventually
\* receives what is offered on its channel
FairCaller == "c1"

NextFair ==
  \/ CallNewBuffer(FairCaller)
  \/ NewBufferLock(FairCaller)
  \/ NewBufferRegister(FairCaller)
  \/ CallNewTexture(FairCaller)
  \/ CallNewWindow(FairCaller)
  \/ NewWindowLock(FairCaller)
  \/ NewWindowRegister(FairCaller)
  \/ NewWindowRequests(FairCaller)
  \/ CallUpload(FairCaller)
  \/ RunWaitForEvent
  \/ RunLock
  \/ RunLookup
  \/ RunRoute
  \/ XEventsRecv
  \/ HandleCompletionLock
  \/ HandleCompletionLookup
  \/ HandleCompletionPost
  \/ HandleCompletionNotify
  \/ SendReturn

LoopStep ==
  \/ RunWaitForEvent
  \/ RunLock
  \/ RunLookup
  \/ RunRoute
  \/ HandleCompletionLock
  \/ HandleCompletionLookup
  \/ HandleCompletionPost
  \/ HandleCompletionNotify
UnlockStep == \E t \in Callers : NewBufferRegister(t) \/ NewWindowRegister(t)

SpecFair ==
  /\ Init
  /\ [][NextFair]_vars
  /\ WF_vars(LoopStep)
  /\ WF_vars(UnlockStep)
  /\ WF_vars(XEventsRecv)

(* ============================== properties ============================= *)

\* the events of log (a sequence of <<window id, read number>>) about window w
ForWindow(log, w) == SelectSeq(log, LAMBDA d : d[1] = w)
IsPrefix(a, b) == Len(a) <= Len(b) /\ SubSeq(b, 1, Len(a)) = a
\* the loop holds w, removed from the registry, and is about to close its channel
ClosePending(w) == lpc = "route" /\ destroy /\ lw = w

\* C1: once handleCompletion has looked up a completion event whose sequence
\* number has an entry in uploads, uploads has no entry for that sequence number.
C1_EntryRemoved ==
  (lpc = "hc_post" /\ lc.ok) => ev.Sequence \notin DOMAIN uploads

\* C2: a window registered by NewWindow is found under its id until the loop has
\* processed a destroy-notification for it; from then on no lookup finds it, and its
\* channel is closed exactly once (by the iteration that removed it), whatever
\* events follow; the loop never closes a closed channel.
C2_WindowLifecycle ==
  /\ lpc # "panic"
  /\ \A w \in registered :
       IF w \in destroyDone
       THEN /\ w \notin DOMAIN windows
            /\ closes[w] = (IF ClosePending(w) THEN 0 ELSE 1)
            /\ xevents[w] = (IF ClosePending(w) THEN "open" ELSE "closed")
       ELSE /\ Lookup(windows, w) = w
            /\ closes[w] = 0
            /\ xevents[w] = "open"

\* C2 witness: a second destroy-notification for a window already closed was
\* looked up and found nothing
C2_Witness ==
  /\ lpc = "route" /\ destroy /\ lw = Nil
  /\ xw \in registered
  /\ closes[xw] = 1

\* C3: the windows registry has as many entries as NewWindow calls registered,
\* less the destroy-notifications that found their window, and the buffers
\* table as many as NewBuffer calls returned a buffer.
C3_TableCardinality ==
  /\ Cardinality(DOMAIN windows) = Cardinality(registered) - destroyed
  /\ Cardinality(DOMAIN buffers) = nBuffers

\* C3 witness: two windows were registered and one of them was destroyed
C3_Witness ==
  /\ Cardinality(registered) = 2
  /\ destroyed = 1
  /\ Cardinality(DOMAIN windows) = 1

\* C4 (as claimed): no task holding the mutex sees a window removed from the
\* registry whose channel is not closed yet.
C4_RemoveAndCloseAtomic ==
  \A t \in Callers :
    mu = t => \A w \in registered : w \notin DOMAIN windows => xevents[w] = "closed"

\* C4 (amended): the entry is removed under the mutex and the channel is closed
\* after the mutex is released; while a window is out of the registry with its
\* channel still open, the loop is past the Unlock of the iteration that removed
\* it and closing that channel is its next step, before it reads another event.
C4_CloseFollowsRemoval ==
  \A w \in registered :
    (w \notin DOMAIN windows /\ xevents[w] = "open") => (ClosePending(w) /\ mu # Loop)

\* C4 witness: a caller holds the mutex while the loop is between removing a
\* window and closing its channel
C4_Witness ==
  /\ \E w \in registered : ClosePending(w) /\ w \notin DOMAIN windows /\ xevents[w] = "open"
  /\ \E t \in Callers : mu = t

\* C5: a task holds the mutex exactly while it is at a table access: never while
\* waiting for an event, sending on or closing a channel, starting a recipient's
\* Send or issuing requests; and the windows and buffers tables change only in
\* steps taken with the mutex held.
C5_MutexOnlyAcrossTables ==
  /\ [](/\ (mu = Loop <=> lpc \in {"lookup", "hc_lookup"})
        /\ \A t \in Callers : (mu = t <=> pc[t] \in {"nb_register", "nw_register"}))
  /\ [][(windows' # windows \/ buffers' # buffers) => mu # NoTask]_vars

\* C5 witness: a caller is inside its table access while the loop is blocked in a
\* channel send
C5_Witness ==
  /\ lpc = "send"
  /\ \E t \in Callers : mu = t /\ pc[t] = "nw_register"

\* C6: what a window's task has received is a prefix of the events read for that
\* window between its registration and its destroy-notification, in arrival order,
\* all of them once the loop is back at WaitForEvent; and events are received in
\* the order they were read, across windows too.
C6_DeliveryOrder ==
  /\ \A w \in registered :
       /\ IsPrefix(ForWindow(delivered, w), ForWindow(arrived, w))
       /\ (lpc \notin {"lock", "lookup", "route", "send"} \/ xw # w)
            => ForWindow(delivered, w) = ForWindow(arrived, w)
  /\ \A i \in 1 .. Len(delivered) :
       /\ delivered[i][1] \in registered
       /\ \A j \in 1 .. Len(delivered) : i < j => delivered[i][2] < delivered[j][2]

\* C6 witness: two windows have each received an event, and the loop is back at
\* WaitForEvent after a third read
C6_Witness ==
  /\ Len(delivered) = 2
  /\ delivered[1][1] # delivered[2][1]
  /\ lpc = "wait"
  /\ nread = 3

\* C7: the loop task is never inside a recipient's Send, and from the end of
\* handleCompletion it is back at WaitForEvent in one step, whether or not any
\* Send has returned.
C7_SendOffLoop ==
  /\ [](lpc # "hc_send")
  /\ [][(lpc = "hc_notify" /\ lpc' # lpc) => lpc' = "wait"]_vars

\* C7 witness: the loop is routing a later event while a recipient's Send, started
\* for an earlier completion, has not returned
C7_Witness ==
  /\ sends > 0
  /\ notified = 0
  /\ lpc \in {"route", "hc_post"}

\* the sizes the claims call invalid (4*w*h > maxShmSize, as in BufferSizeInvalid)
ClaimedInvalid(w, h) ==
  w < 0 \/ h < 0 \/ w > 32767 \/ h > 32767 \/ w * h > 268435456 \div 4

\* C8: NewBuffer and NewTexture return the size error for exactly the invalid
\* sizes, and a call that returns it allocated no id, opened no region, issued no
\* request and left the buffers table alone.
C8_InvalidSizeRejected ==
  /\ [](/\ lastCall.op \in {"NewBuffer", "NewTexture"} =>
             /\ lastCall.status = "err_size" <=> ClaimedInvalid(lastCall.X, lastCall.Y)
             /\ lastCall.status = "err_size" => lastCall.touched = {} /\ lastCall.id = 0
        /\ \A t \in Callers : call[t].op = "NewBuffer" => ~ClaimedInvalid(call[t].X, call[t].Y))
  /\ [][(lastCall' # lastCall /\ lastCall'.status = "err_size")
          => UNCHANGED <<nextXid, mapped, tables, serverWindows>>]_vars

\* C8 witness: a texture whose sides are in range and whose byte size is not was
\* refused
C8_Witness ==
  /\ lastCall.op = "NewTexture"
  /\ lastCall.X = 8193 /\ lastCall.Y = 8192
  /\ lastCall.status = "err_size"

\* C9: for a valid size NewBuffer fails only if NewSegId or shmOpen fails, and the
\* buffer it returns is registered under its segment id with a pixel view of
\* 4*width*height bytes and stride 4*width ((10,10): 400 bytes, stride 40).
C9_ValidSizeBuffer ==
  (lastCall.op = "NewBuffer" /\ ~ClaimedInvalid(lastCall.X, lastCall.Y)) =>
    /\ lastCall.status \in {"ok", "err_segid", "err_shmopen"}
    /\ lastCall.status = "ok" =>
         /\ lastCall.id \in DOMAIN buffers
         /\ buffers[lastCall.id].xs = lastCall.id
         /\ buffers[lastCall.id].bufLen = 4 * lastCall.X * lastCall.Y
         /\ buffers[lastCall.id].stride = 4 * lastCall.X
         /\ (lastCall.X = 10 /\ lastCall.Y = 10) =>
              buffers[lastCall.id].bufLen = 400 /\ buffers[lastCall.id].stride = 40

\* C9 witness: a buffer at the byte-size limit (4*8192*8192 = maxShmSize) was
\* returned
C9_Witness ==
  /\ lastCall.op = "NewBuffer"
  /\ lastCall.X = 8192 /\ lastCall.Y = 8192
  /\ lastCall.status = "ok"
  /\ buffers[lastCall.id].bufLen = maxShmSize

\* C10: a NewBuffer call whose Attach failed after the region was opened returns
\* an error, with the region released and no buffer registered.
C10_AttachFailureUnwinds ==
  (lastCall.op = "NewBuffer" /\ "shmopen" \in lastCall.touched /\ ~lastCall.attachOk) =>
    /\ lastCall.status # "ok"
    /\ lastCall.id \notin mapped
    /\ lastCall.id \notin DOMAIN buffers

\* C11: a NewWindow call in which an id allocation, the root-depth check or the
\* server's creation of the window, graphics context or picture failed returns an
\* error and leaves no entry for its window id in the windows registry.
C11_NoPartialRegistration ==
  (lastCall.op = "NewWindow" /\ (lastCall.status # "ok" \/ ~lastCall.createOk)) =>
    /\ lastCall.status # "ok"
    /\ lastCall.id \notin DOMAIN windows

ClaimedRGB(f) ==
  /\ f.Type = PictTypeDirect
  /\ f.Direct.RedShift = 16 /\ f.Direct.RedMask = 255
  /\ f.Direct.GreenShift = 8 /\ f.Direct.GreenMask = 255
  /\ f.Direct.BlueShift = 0 /\ f.Direct.BlueMask = 255
Claimed24(f) == ClaimedRGB(f) /\ f.Depth = 24 /\ f.Direct.AlphaMask = 0
Claimed32(f) ==
  ClaimedRGB(f) /\ f.Depth = 32 /\ f.Direct.AlphaMask = 255 /\ f.Direct.AlphaShift = 24

\* C13: initPictformats succeeds only on a format list holding a format of the
\* depth-24 layout and one of the depth-32 layout, and then pictformat24 and
\* pictformat32 are ids of such formats of the list; on a list lacking either,
\* construction ends with an error and no coordinator.
C13_FormatNegotiation ==
  LET fs == ctor.formats
      has24 == \E i \in 1..Len(fs) : Claimed24(fs[i])
      has32 == \E i \in 1..Len(fs) : Claimed32(fs[i])
      answered == ctor.pc = "window32" \/ ctor.err \in {"pictformat24", "pictformat32"}
  IN
  /\ ctor.pc = "window32" =>
       /\ \E i \in 1..Len(fs) : Claimed24(fs[i]) /\ fs[i].Id = ctor.pictformat24
       /\ \E i \in 1..Len(fs) : Claimed32(fs[i]) /\ fs[i].Id = ctor.pictformat32
  /\ (answered /\ ~(has24 /\ has32)) =>
       /\ ctor.err \in {"pictformat24", "pictformat32"}
       /\ ctor.result = "err"
       /\ lpc = "unstarted"
  /\ (ctor.result = "ok" \/ lpc # "unstarted") =>
       ctor.pictformat24 # 0 /\ ctor.pictformat32 # 0

\* C13 witness: negotiation succeeded on a list whose first format has the
\* depth-32 layout but is not direct colour; the second one was selected
C13_Witness ==
  /\ ctor.pc = "window32"
  /\ Len(ctor.formats) = 3
  /\ ctor.formats[1].Type = PictTypeIndexed
  /\ ctor.formats[2].Depth = 32
  /\ ctor.pictformat32 = ctor.formats[2].Id
  /\ ctor.pictformat24 = ctor.formats[3].Id

\* the results of a creation call that say an id allocation failed
IdFailures == {"err_segid", "err_pixmapid", "err_pictureid", "err_windowid",
               "err_gcontextid"}
\* the steps of a creation call that allocate an id
IdAllocations == {"segid", "pixmapid", "pictureid", "windowid", "gcontextid"}

\* a NewBuffer, NewTexture or NewWindow call that returned an id-allocation error
\* did nothing but allocate its earlier ids: no request, no region, no entry
CallIdFailureClean ==
  lastCall.status \in IdFailures =>
    /\ lastCall.touched \subseteq IdAllocations
    /\ lastCall.id \notin mapped
    /\ lastCall.id \notin DOMAIN buffers
    /\ lastCall.id \notin DOMAIN windows
    /\ lastCall.id \notin serverWindows

\* the step in which a call returns an id-allocation error (a call that starts
\* and returns in one step) changes no table, maps no region and creates no window
IdFailureStep ==
  (calls' # calls /\ pc' = pc /\ lastCall'.status \in IdFailures) =>
    UNCHANGED <<tables, mapped, serverWindows, xevents>>

\* C14 as claimed: in NewWindow, NewBuffer, NewTexture and initWindow32 alike, a
\* failed id allocation means no creation request was issued by the operation, no
\* region opened and no table modified.
C14_NoRequestOnIdFailure ==
  /\ [](CallIdFailureClean
        /\ (ctor.err \in {"colormapid", "windowid", "gcontextid"} =>
              ctor.requests = {} /\ tables = <<EmptyMap, EmptyMap, EmptyMap>>))
  /\ [][IdFailureStep]_vars

\* C14 amended: as claimed for NewWindow, NewBuffer and NewTexture; in
\* initWindow32 nothing is requested for the failed id or after the failure, but
\* the colormap, whose id was allocated first, has been created by then.
C14_NoDependentRequest ==
  /\ [](CallIdFailureClean
        /\ (ctor.err = "colormapid" => ctor.requests = {})
        /\ (ctor.err \in {"windowid", "gcontextid"} =>
              ctor.requests = {"CreateColormap"})
        /\ (ctor.err \in {"colormapid", "windowid", "gcontextid"} =>
              ctor.result = "err" /\ tables = <<EmptyMap, EmptyMap, EmptyMap>>))
  /\ [][IdFailureStep]_vars

\* C14 witness: a NewTexture call on the constructed coordinator failed at its
\* second id allocation
C14_Witness ==
  /\ ctor.result = "ok"
  /\ lastCall.op = "NewTexture"
  /\ lastCall.status = "err_pictureid"
  /\ lastCall.touched = {"pixmapid"}

\* the loop is handling a window-addressed event whose id has no entry
Unroutable ==
  \/ lpc = "lookup" /\ xw \notin DOMAIN windows
  \/ lpc = "route" /\ lw = Nil

\* C15: the loop's steps on a window-addressed event (a destroy-notification
\* included) whose id has no entry change no table, close no channel and deliver
\* nothing, and end at WaitForEvent; the loop does not stop, and when it reads
\* again every registered window has received all the events read for it.
C15_UnroutableDropped ==
  /\ [][(Unroutable /\ lpc' # lpc) =>
         /\ UNCHANGED <<tables, xevents, closes, delivered, destroyed, mu>>
            \/ (lpc = "lookup" /\ mu' = NoTask
                 /\ UNCHANGED <<tables, xevents, closes, delivered, destroyed>>)
         /\ lw' = Nil
         /\ lpc' = IF lpc = "lookup" THEN "route" ELSE "wait"]_vars
  /\ [](lpc # "panic")
  /\ [](lpc = "wait" =>
         \A w \in DOMAIN windows :
           Len(ForWindow(delivered, w)) = Len(ForWindow(arrived, w)))

\* C15 witness: the loop is dropping a destroy-notification for an id without an
\* entry, after an earlier delivery and with a window still registered
C15_Witness ==
  /\ lpc = "route"
  /\ lw = Nil
  /\ destroy
  /\ Len(delivered) >= 1
  /\ delivered[1][1] \in DOMAIN windows

\* C16: a completion event finds an entry only for a sequence number no earlier
\* completion event found one for: each registered upload is resolved (its buffer
\* marked idle, its recipient notified) at most once, and a duplicate completion
\* event finds nothing.
C16_ResolvedAtMostOnce ==
  [][(lpc = "hc_lookup" /\ lpc' = "hc_post" /\ lc'.ok) => ev.Sequence \notin resolved]_vars

\* C17: an event for a registered window puts the loop into the send on that
\* window's channel; while it is there the loop reads nothing and keeps the event
\* and its window, and the only step that takes it out is the window's task
\* receiving that very event.
C17_Backpressure ==
  /\ [][(lpc = "route" /\ lw # Nil /\ ~destroy /\ lpc' # lpc) => lpc' = "send"]_vars
  /\ [][lpc = "send" =>
         /\ nread' = nread
         /\ arrived' = arrived
         /\ \/ lpc' = "send" /\ UNCHANGED <<xw, destroy, lw, ev, lc, delivered>>
            \/ lpc' = "wait" /\ delivered' = Append(delivered, <<lw, nread>>)]_vars
  /\ [](lpc = "send" => lw \in DOMAIN xevents /\ xevents[lw] = "open")

\* C17 witness: the loop is in a send, more events could be read, and every other
\* task has finished: nothing but the receive can happen
C17_Witness ==
  /\ lpc = "send"
  /\ nread < MaxEvents
  /\ calls = MaxCalls
  /\ \A t \in Callers : pc[t] = "idle"
  /\ sends = 0
  /\ ~ENABLED RunWaitForEvent

\* C18: the loop has no final position; a read that returns an error or an
\* event of no classified kind leaves tables, channels and deliveries as they
\* were and the loop at WaitForEvent; and, the tasks being scheduled fairly and
\* every window's task receiving, every event the connection has is read and
\* processed to the end: the loop comes to rest at WaitForEvent with all
\* MaxEvents of them read (so from any position it gets back to WaitForEvent).
C18_LoopNeverExits ==
  /\ [](lpc \in {"wait", "lock", "lookup", "route", "send", "hc_lock", "hc_lookup",
                 "hc_post", "hc_notify"})
  /\ [][(lpc = "wait" /\ nread' # nread /\ lpc' \notin {"lock", "hc_lock"}) =>
         /\ lpc' = "wait"
         /\ UNCHANGED <<mu, tables, xevents, closes, delivered, arrived, uploadState,
                        sends, notified>>]_vars
  /\ <>[](nread = MaxEvents /\ lpc = "wait")

\* C18 witness: the loop has an event for a registered window in hand after
\* two reads that returned errors or events it dropped
C18_Witness ==
  /\ nread = 3
  /\ lpc = "route"
  /\ lw # Nil
  /\ arrived = <<(<<lw, 3>>)>>
  /\ destroyRead = {}
  /\ resolved = {}
  /\ uploads = EmptyMap

\* C19: on a matched completion event the loop marks the buffer idle in a step
\* of its own, before the step that spawns the recipient's Send; a Send is spawned
\* nowhere else and only for an entry with a recipient; for an entry without one
\* the buffer is marked idle all the same and nothing is spawned.
C19_IdleBeforeNotify ==
  /\ [][(lpc' = "hc_notify" /\ lpc # "hc_notify") =>
         /\ lpc = "hc_post" /\ lc.ok
         /\ uploadState'[lc.buffer] = "idle"
         /\ sends' = sends]_vars
  /\ [][sends' > sends => lpc = "hc_notify" /\ lc.ok /\ lc.sender # NoSender]_vars
  /\ [][(lpc = "hc_notify" /\ lc.sender = NoSender /\ lpc' # lpc) =>
         lpc' = "wait" /\ sends' = sends /\ uploadState' = uploadState]_vars
  /\ [](lpc = "hc_notify" => lc.ok /\ lc.buffer \in DOMAIN uploadState)

\* C19 witness: the loop has marked idle the buffer of an entry without recipient
\* and is at the test of the sender
C19_Witness ==
  /\ lpc = "hc_notify"
  /\ lc.ok
  /\ lc.sender = NoSender
  /\ uploadState[lc.buffer] = "idle"
  /\ sends = 0

\* C20: the loop never panics on a channel: it is in a send only on an open
\* channel and no channel is closed twice; a channel goes from open to closed
\* only in the iteration that looked its window up for a destroy-notification and
\* removed it; and a lookup succeeds only for a window never removed.
C20_ChannelSafety ==
  /\ [](lpc # "panic")
  /\ [](\A w \in DOMAIN closes : closes[w] <= 1)
  /\ [](lpc = "send" => xevents[lw] = "open")
  /\ [][\A w \in DOMAIN xevents :
          (xevents[w] = "open" /\ xevents'[w] = "closed") =>
            /\ ClosePending(w)
            /\ w \in destroyDone
            /\ w \notin DOMAIN windows
            /\ closes[w] = 0]_vars
  /\ [][(lpc = "lookup" /\ lpc' = "route" /\ lw' # Nil) =>
         /\ lw' = xw
         /\ lw' \notin destroyDone
         /\ xevents[lw'] = "open"]_vars

\* C20 witness: with two windows registered, an event for the one already
\* removed and closed has been looked up and found nothing
C20_Witness ==
  /\ lpc = "route"
  /\ ~destroy
  /\ lw = Nil
  /\ xw \in destroyDone
  /\ xevents[xw] = "closed"
  /\ Cardinality(registered) = 2

====
